---- MODULE Spec2Model ----
(***************************************************************************)
(* Model of the transcription pipeline of transcription_auto_system:       *)
(* gemini_multi_transcribe.py (model rotation, normalization, code-switch  *)
(* marking, the per-unit orchestration and the run loop), with the         *)
(* normalization of gemini_transcribe.py and the code-switch detection of  *)
(* transcribe_3.py.                                                        *)
(*                                                                         *)
(* Text is a sequence of characters; a character is a one-character        *)
(* string, except the three musical-note glyphs, written "U+266A",         *)
(* "U+266B" and "U+266C" (one character each).                             *)
(***************************************************************************)
EXTENDS Integers, Sequences, FiniteSets, TLC

\* ------------------------------------------------------------------------
\* Characters and the str methods the code calls
\* ------------------------------------------------------------------------

\* ASCII lower-case letters, in alphabet order
LowerLetters ==
  <<"a","b","c","d","e","f","g","h","i","j","k","l","m",
    "n","o","p","q","r","s","t","u","v","w","x","y","z">>

\* ASCII upper-case letters, in alphabet order
UpperLetters ==
  <<"A","B","C","D","E","F","G","H","I","J","K","L","M",
    "N","O","P","Q","R","S","T","U","V","W","X","Y","Z">>

\* decimal digits
Digits ==
  {"0","1","2","3","4","5","6","7","8","9"}

\* characters str.split() and str.strip() treat as whitespace
Whitespace ==
  {" ", "\n", "\t", "\r"}

\* the range of a sequence
Range(s) ==
  {s[i] : i \in DOMAIN s}

\* regex class \w: letters, digits and the underscore
IsWordChar(c) ==
  c \in Range(LowerLetters) \cup Range(UpperLetters) \cup Digits \cup {"_"}

\* str.lower() on one character
LowerChar(c) ==
  IF c \in Range(UpperLetters)
  THEN LowerLetters[CHOOSE i \in DOMAIN UpperLetters : UpperLetters[i] = c]
  ELSE c

\* str.lower()
Lower(s) ==
  [i \in DOMAIN s |-> LowerChar(s[i])]

\* pat occurs in s at position i
StartsWithAt(s, pat, i) ==
  /\ i + Len(pat) - 1 <= Len(s)
  /\ \A k \in DOMAIN pat : s[i + k - 1] = pat[k]

\* pat in s (substring test)
Contains(s, pat) ==
  \E i \in 1..(Len(s) + 1) : StartsWithAt(s, pat, i)

\* str.endswith(suffix)
EndsWith(s, suffix) ==
  /\ Len(suffix) <= Len(s)
  /\ StartsWithAt(s, suffix, Len(s) - Len(suffix) + 1)

RECURSIVE ReplaceFrom(_, _, _)
\* str.replace(pat, "") from position i on: occurrences are found left to
\* right and do not overlap; the text left after a removal is not rescanned
ReplaceFrom(s, pat, i) ==
  IF i > Len(s) THEN <<>>
  ELSE IF StartsWithAt(s, pat, i) THEN ReplaceFrom(s, pat, i + Len(pat))
  ELSE <<s[i]>> \o ReplaceFrom(s, pat, i + 1)

\* str.replace(pat, "") for a non-empty pat
Replace(s, pat) ==
  ReplaceFrom(s, pat, 1)

RECURSIVE LStrip(_)
\* leading whitespace removed
LStrip(s) ==
  IF s # <<>> /\ Head(s) \in Whitespace THEN LStrip(Tail(s)) ELSE s

RECURSIVE RStrip(_)
\* trailing whitespace removed
RStrip(s) ==
  IF s # <<>> /\ s[Len(s)] \in Whitespace THEN RStrip(SubSeq(s, 1, Len(s) - 1)) ELSE s

\* str.strip()
Strip(s) ==
  RStrip(LStrip(s))

RECURSIVE SplitFrom(_, _, _)
\* str.split() from position i on, cur being the word collected so far
SplitFrom(s, i, cur) ==
  IF i > Len(s) THEN (IF cur = <<>> THEN <<>> ELSE <<cur>>)
  ELSE IF s[i] \in Whitespace
       THEN (IF cur = <<>> THEN <<>> ELSE <<cur>>) \o SplitFrom(s, i + 1, <<>>)
       ELSE SplitFrom(s, i + 1, Append(cur, s[i]))

\* str.split(): the maximal runs of non-whitespace characters
Split(s) ==
  SplitFrom(s, 1, <<>>)

RECURSIVE JoinFrom(_, _)
\* " ".join(words[k:])
JoinFrom(words, k) ==
  IF k > Len(words) THEN <<>>
  ELSE IF k = Len(words) THEN words[k]
  ELSE words[k] \o <<" ">> \o JoinFrom(words, k + 1)

\* " ".join(words)
Join(words) ==
  JoinFrom(words, 1)

RECURSIVE Concat(_)
\* the concatenation of a sequence of texts
Concat(parts) ==
  IF parts = <<>> THEN <<>> ELSE Head(parts) \o Concat(Tail(parts))

\* ------------------------------------------------------------------------
\* Normalization (transcribe_audio, after the response arrived)
\* ------------------------------------------------------------------------

\* artifacts: the list of lines 296-310 of gemini_multi_transcribe.py, in list order
artifacts ==
  <<
    <<"H","e","r","e"," ","i","s"," ","t","h","e"," ","t","r","a","n","s","c","r","i","p","t","i","o","n",":">>,
    <<"T","r","a","n","s","c","r","i","p","t","i","o","n",":">>,
    <<"*","*","T","r","a","n","s","c","r","i","p","t","i","o","n",":","*","*">>,
    <<"T","h","e"," ","t","r","a","n","s","c","r","i","p","t","i","o","n"," ","i","s",":">>,
    <<"H","e","r","e"," ","y","o","u"," ","g","o",":">>,
    <<"[","M","u","s","i","c","]">>,
    <<"[","m","u","s","i","c","]">>,
    <<"[","A","p","p","l","a","u","s","e","]">>,
    <<"[","a","p","p","l","a","u","s","e","]">>,
    <<"U+266A">>,
    <<"U+266B">>,
    <<"U+266C">>,
    <<"T","h","a","n","k"," ","y","o","u"," ","f","o","r"," ","w","a","t","c","h","i","n","g">>,
    <<"T","h","a","n","k","s"," ","f","o","r"," ","w","a","t","c","h","i","n","g">>,
    <<"P","l","e","a","s","e"," ","s","u","b","s","c","r","i","b","e">>,
    <<"L","i","k","e"," ","a","n","d"," ","s","u","b","s","c","r","i","b","e">>,
    <<"D","o","n","'","t"," ","f","o","r","g","e","t"," ","t","o">>
  >>

RECURSIVE RemoveArtifactsFrom(_, _, _)
\* for artifact in artifacts: transcription = transcription.replace(artifact, "")
RemoveArtifactsFrom(s, arts, k) ==
  IF k > Len(arts) THEN s
  ELSE RemoveArtifactsFrom(Replace(s, arts[k]), arts, k + 1)

\* the markdown removal of line 316: replace("**", "").replace("*", "")
RemoveMarkdown(s) ==
  Replace(Replace(s, <<"*","*">>), <<"*">>)

\* mutant of Normalize: the whitespace is not collapsed (line 319 missing)
Normalize_NoCollapse(text) ==
  RemoveMarkdown(RemoveArtifactsFrom(Strip(text), artifacts, 1))

\* the text transcribe_audio returns for a response text (lines 293-319):
\* strip, remove each artifact in list order, remove asterisks, collapse whitespace
Normalize(text) ==
  Join(Split(RemoveMarkdown(RemoveArtifactsFrom(Strip(text), artifacts, 1))))

\* artifacts of gemini_transcribe.py (lines 237-247), in list order
artifacts_single ==
  <<
    <<"H","e","r","e"," ","i","s"," ","t","h","e"," ","t","r","a","n","s","c","r","i","p","t","i","o","n",":">>,
    <<"T","r","a","n","s","c","r","i","p","t","i","o","n",":">>,
    <<"*","*","T","r","a","n","s","c","r","i","p","t","i","o","n",":","*","*">>,
    <<"T","h","e"," ","t","r","a","n","s","c","r","i","p","t","i","o","n"," ","i","s",":">>,
    <<"[","M","u","s","i","c","]">>,
    <<"[","A","p","p","l","a","u","s","e","]">>,
    <<"U+266A">>,
    <<"T","h","a","n","k"," ","y","o","u"," ","f","o","r"," ","w","a","t","c","h","i","n","g">>,
    <<"P","l","e","a","s","e"," ","s","u","b","s","c","r","i","b","e">>
  >>

\* the text transcribe_audio of gemini_transcribe.py returns for a response
\* text (lines 234-253): strip, remove each artifact in list order, collapse
\* whitespace; asterisks are not removed
Normalize_single(text) ==
  Join(Split(RemoveArtifactsFrom(Strip(text), artifacts_single, 1)))

\* transcribe_audio_local / _openai / _gemini of transcribe_3.py:
\* return result["text"].strip() (transcript.text.strip(), response.text.strip())
transcribe_audio_3(text) ==
  Strip(text)

\* ------------------------------------------------------------------------
\* Code-switch detection
\* ------------------------------------------------------------------------

\* swahili_common of gemini_multi_transcribe.py and gemini_transcribe.py
swahili_common ==
  {
    <<"n","a">>, <<"y","a">>, <<"w","a">>, <<"n","i">>, <<"k","w","a">>, <<"l","a">>,
    <<"z","a">>, <<"k","a","t","i","k","a">>, <<"k","a","m","a">>, <<"a","u">>,
    <<"l","a","k","i","n","i">>, <<"p","i","a">>, <<"s","a","n","a">>, <<"t","u">>,
    <<"k","w","e","n","y","e">>, <<"b","i","l","a">>, <<"h","i","i">>, <<"h","i","y","o">>,
    <<"h","i","l","o">>, <<"h","a","o">>, <<"w","a","l","e">>, <<"h","a","w","a">>,
    <<"m","i","m","i">>, <<"w","e","w","e">>, <<"y","e","y","e">>, <<"s","i","s","i">>,
    <<"n","i","n","y","i">>, <<"w","a","o">>, <<"n","i","n","i">>, <<"n","a","n","i">>,
    <<"w","a","p","i">>, <<"l","i","n","i">>, <<"j","e">>, <<"c","h","a">>, <<"v","y","a">>,
    <<"n","c","h","i">>, <<"w","a","t","u">>, <<"m","t","u">>, <<"y","a","k","e">>,
    <<"y","a","n","g","u">>, <<"y","e","t","u">>, <<"m","o","j","a">>, <<"m","b","i","l","i">>,
    <<"t","a","t","u">>, <<"n","n","e">>, <<"t","a","n","o">>, <<"n","d","i","y","o">>,
    <<"h","a","p","a","n","a">>
  }

\* swahili_common of transcribe_3.py: the same words and sixteen more
swahili_common_3 ==
  swahili_common \cup {
    <<"s","a","s","a">>, <<"l","e","o">>, <<"j","a","n","a">>, <<"k","e","s","h","o">>,
    <<"w","a","k","a","t","i">>, <<"w","e","n","g","i","n","e">>, <<"n","d","a","n","i">>,
    <<"n","j","e">>, <<"k","a","r","i","b","u">>, <<"k","w","e","l","i">>, <<"h","a","p","o">>,
    <<"h","a","p","a">>, <<"u","l","e">>, <<"i","l","e">>, <<"k","i","l","a">>,
    <<"b","a","s","i">>
  }

\* the alternatives of english_pattern (gemini_multi_transcribe.py, gemini_transcribe.py)
english_pattern ==
  {
    <<"t","h","e">>, <<"i","s">>, <<"a","r","e">>, <<"w","a","s">>, <<"w","e","r","e">>,
    <<"h","a","v","e">>, <<"h","a","s">>, <<"h","a","d">>, <<"w","i","l","l">>,
    <<"w","o","u","l","d">>, <<"c","o","u","l","d">>, <<"s","h","o","u","l","d">>,
    <<"c","a","n">>, <<"m","a","y">>, <<"m","u","s","t">>, <<"d","o">>, <<"d","o","e","s">>,
    <<"d","i","d">>, <<"t","h","i","s">>, <<"t","h","a","t">>, <<"t","h","e","s","e">>,
    <<"t","h","o","s","e">>, <<"w","h","a","t">>, <<"w","h","e","r","e">>, <<"w","h","e","n">>,
    <<"w","h","y">>, <<"h","o","w">>, <<"w","h","o">>, <<"w","h","i","c","h">>, <<"a","n","d">>,
    <<"b","u","t">>, <<"o","r">>, <<"s","o">>, <<"b","e","c","a","u","s","e">>, <<"i","f">>,
    <<"t","h","e","n">>
  }

\* the alternatives of english_indicators (transcribe_3.py)
english_indicators ==
  english_pattern \cup {
    <<"o","k","a","y">>, <<"s","u","r","e">>, <<"y","e","s">>, <<"n","o">>,
    <<"m","a","y","b","e">>, <<"t","h","a","n","k","s">>, <<"m","o","r","n","i","n","g">>,
    <<"a","f","t","e","r","n","o","o","n">>, <<"e","v","e","n","i","n","g">>
  }

\* the suffixes of word_clean.endswith((...))
english_suffixes ==
  {<<"i","n","g">>, <<"e","d">>, <<"t","i","o","n">>, <<"m","e","n","t">>}

\* the letters of any(c in word_clean for c in ['x', 'q'])
foreign_letters ==
  {"x", "q"}

\* mutant of cs_marker: the marker is glued to the word (f"[cs]{word}")
cs_marker_Glued ==
  <<"[","c","s","]">>

\* the marker put before a marked word: f"[cs] {word}"
cs_marker ==
  <<"[","c","s","]"," ">>

RECURSIVE KeepWordChars(_)
\* re.sub(r"[^\w']+", "", word): every character that is neither a word
\* character nor an apostrophe is removed
KeepWordChars(word) ==
  IF word = <<>> THEN <<>>
  ELSE IF IsWordChar(Head(word)) \/ Head(word) = "'"
       THEN <<Head(word)>> \o KeepWordChars(Tail(word))
       ELSE KeepWordChars(Tail(word))

\* word_clean = re.sub(r"[^\w']+", "", word).lower()
WordClean(word) ==
  Lower(KeepWordChars(word))

\* mutant of WordBoundary: the pattern has no \b, a listed word matches
\* anywhere in the text
WordBoundary_Anywhere(s, p) ==
  TRUE

\* regex \b at position p of s (between s[p-1] and s[p]): exactly one side
\* is a word character, the outside of the text counting as none
WordBoundary(s, p) ==
  LET before == p > 1 /\ IsWordChar(s[p - 1])
      after  == p <= Len(s) /\ IsWordChar(s[p])
  IN  before # after

\* pattern.search(s) for a pattern \b(w1|w2|...)\b: some listed word occurs
\* in s with a word boundary on both sides
PatternSearch(s, alternatives) ==
  \E w \in alternatives : \E i \in 1..Len(s) :
     /\ StartsWithAt(s, w, i)
     /\ WordBoundary(s, i)
     /\ WordBoundary(s, i + Len(w))

\* the condition under which a word passes through unchanged first
\* (if not word_clean or word_clean in swahili_common)
IsKept(word, common) ==
  WordClean(word) = <<>> \/ WordClean(word) \in common

\* the "English indicators" condition on word_clean
HasEnglishCue(word, alternatives) ==
  \/ PatternSearch(WordClean(word), alternatives)
  \/ \E suffix \in english_suffixes : EndsWith(WordClean(word), suffix)
  \/ \E c \in foreign_letters : c \in Range(WordClean(word))

\* a word the loop marks (or, in strict mode, drops)
IsForeign(word, common, alternatives) ==
  ~IsKept(word, common) /\ HasEnglishCue(word, alternatives)

RECURSIVE ProcessWords(_, _, _, _, _)
\* the loop over words, from word k on: the list `processed`
ProcessWords(words, k, strict, common, alternatives) ==
  IF k > Len(words) THEN <<>>
  ELSE LET rest == ProcessWords(words, k + 1, strict, common, alternatives)
       IN  IF IsForeign(words[k], common, alternatives)
           THEN IF strict THEN rest ELSE <<cs_marker \o words[k]>> \o rest
           ELSE <<words[k]>> \o rest

\* detect_code_switching of gemini_multi_transcribe.py and gemini_transcribe.py
detect_code_switching(text) ==
  Join(ProcessWords(Split(text), 1, FALSE, swahili_common, english_pattern))

\* mutant of detect_code_switching_3: the flag strict_swahili is ignored and
\* the foreign words are marked in both modes
detect_code_switching_3_IgnoresStrict(text, strict_swahili) ==
  Join(ProcessWords(Split(text), 1, FALSE, swahili_common_3, english_indicators))

\* detect_code_switching(text, strict_swahili) of transcribe_3.py
detect_code_switching_3(text, strict_swahili) ==
  Join(ProcessWords(Split(text), 1, strict_swahili, swahili_common_3, english_indicators))

\* the number of whitespace-delimited tokens of a text
TokenCount(text) ==
  Len(Split(text))

\* the number of words of a text that the loop classifies as foreign
ForeignCount(text, common, alternatives) ==
  LET words == Split(text)
  IN  Cardinality({k \in DOMAIN words : IsForeign(words[k], common, alternatives)})

\* ------------------------------------------------------------------------
\* Bounds of the model
\* ------------------------------------------------------------------------

\* units (process_audio calls) a run starts
MaxUnits ==
  2

\* quota-exceeded errors the provider raises within one run
MaxQuotaErrors ==
  7

\* ------------------------------------------------------------------------
\* The program's state
\* ------------------------------------------------------------------------

VARIABLES
  pc,                   \* position of the single control thread
  model_names,          \* self.model_names
  current_model_index,  \* self.current_model_index (0-based, as in the code)
  current_model_name,   \* self.current_model_name
  gemini_model,         \* self.gemini_model: the name the model object was built for
  model_retry_count,    \* self.model_retry_count: dict name -> switch count
  audio_count,          \* self.audio_count
  retry_count,          \* parameter retry_count of the running transcribe_audio call
  err,                  \* str(e) of the exception transcribe_audio caught, or NoError
  file_state,           \* audio_file_obj.state.name, or NoState
  uploaded_files,       \* files this unit uploaded to the service and did not delete
  temp_files,           \* temporary audio files on disk (named by their unit)
  audio_file,           \* local audio_file of process_audio, or NoFile
  response_text,        \* response.text, or None
  transcription,        \* transcribe_audio's result / local transcription, or None
  processed,            \* local processed of process_audio, or None
  pending,              \* the way process_audio leaves its try block
  success,              \* what process_audio returned to run, or NoResult
  unlink_count,         \* os.unlink calls that removed this unit's temporary file
  chain_errors,         \* quota-exceeded errors caught in this transcribe_audio call chain
  chain_switches,       \* switch_to_next_model calls made in this call chain
  chain_start_index,    \* current_model_index when the call chain began
  after_reset,          \* the exhaustion branch ran and no provider attempt followed yet
  last_outcome,         \* how the last provider attempt of this unit ended
  switch_calls,         \* switch_to_next_model calls made in this run
  review,               \* how wait_for_submit ended for this unit
  interrupt,            \* what became of the KeyboardInterrupt of this run, or "none"
  text_pc,              \* position of the text stages run on their own
  again,                \* the normalization applied to its own result, or None
  single,               \* what gemini_transcribe.py returns for the response text, or None
  transcription_3,      \* what transcribe_3.py's transcribe_audio_* return for it, or None
  processed_strict,     \* detect_code_switching(text, strict_swahili=True) of it, or None
  poll_tick,            \* parity of the get_file rounds of the running polling loop
  period_attempts,      \* indices of the models attempted since the last 60 s cooldown
  period_switches,      \* switch-and-retry switches made since the last 60 s cooldown
  delete_pending,       \* files the running call chain uploaded without calling delete_file for them
  quota_budget,         \* rate limit errors the service answers with in this run at most
  attempt,              \* loop variable attempt of gemini_transcribe.py's upload loop
  upload_calls,         \* genai.upload_file calls of one gemini_transcribe.py call
  program,              \* the script whose wait_for_submit is running, or "none"
  page_at_start,        \* what the page showed when wait_for_submit was entered
  page,                 \* what the page shows now
  current_id,           \* local current_id of wait_for_submit
  wait_polls,           \* rounds of the wait loop of wait_for_submit so far
  wait_result,          \* what wait_for_submit returned, or NoResult
  retry                 \* local retry of run: the answer to the prompt of this round, or None

vars ==
  <<pc, model_names, current_model_index, current_model_name, gemini_model,
    model_retry_count, audio_count, retry_count, err, file_state, uploaded_files,
    temp_files, audio_file, response_text, transcription, processed, pending,
    success, unlink_count, chain_errors, chain_switches, chain_start_index,
    after_reset, last_outcome, switch_calls, review, interrupt, text_pc, again,
    single, transcription_3, processed_strict, poll_tick, period_attempts,
    period_switches, delete_pending, quota_budget, attempt, upload_calls, program,
    page_at_start, page, current_id, wait_polls, wait_result, retry>>

\* rotation state of the controller, with the count of its switches
rotation_vars ==
  <<model_names, current_model_index, current_model_name, gemini_model,
    model_retry_count, switch_calls>>

\* state of one transcribe_audio call chain
call_vars ==
  <<retry_count, err, file_state, uploaded_files, response_text,
    chain_errors, chain_switches, chain_start_index, after_reset, last_outcome>>

\* state of the text stages run on their own
text_vars ==
  <<text_pc, again, single, transcription_3, processed_strict>>

\* what is recorded of the provider attempts of one call chain
attempt_vars ==
  <<poll_tick, period_attempts, period_switches, delete_pending>>

\* state of transcribe_audio of gemini_transcribe.py run on its own
upload_vars ==
  <<attempt, upload_calls>>

\* state of wait_for_submit run on its own
wait_vars ==
  <<program, page_at_start, page, current_id, wait_polls, wait_result>>

\* what no step of the pipeline of gemini_multi_transcribe.py changes
apart_vars ==
  <<text_vars, upload_vars, wait_vars, quota_budget>>

\* Python's None, as a text that no character sequence equals
None ==
  <<"<None>">>

\* no exception message
NoError ==
  <<"<NoError>">>

\* no temporary file: the None download_audio returns (units count from 1)
NoFile ==
  0

\* no uploaded file object
NoState ==
  "<NoState>"

\* process_audio has not returned
NoResult ==
  "<NoResult>"

\* no page is being watched
NoPage ==
  [textarea |-> "<NoPage>", id_label |-> "<NoPage>", url |-> "<NoPage>"]

\* the list self.model_names of __init__
ModelNames ==
  << "models/gemini-2.0-flash-lite",
     "models/gemini-2.0-flash",
     "models/gemini-2.5-flash-lite",
     "models/gemini-2.5-flash",
     "models/gemini-2.0-flash-exp" >>

\* ------------------------------------------------------------------------
\* What the external collaborators can answer
\* ------------------------------------------------------------------------

\* messages of exceptions the provider calls raise (str(e))
ErrorMessages ==
  {
    <<"4","2","9"," ","R","e","s","o","u","r","c","e"," ","e","x","h","a","u","s","t","e","d">>,
    <<"Q","u","o","t","a"," ","e","x","c","e","e","d","e","d">>,
    <<"R","E","S","O","U","R","C","E","_","E","X","H","A","U","S","T","E","D">>,
    <<"R","a","t","e"," ","l","i","m","i","t"," ","h","i","t">>,
    <<"5","0","0"," ","I","n","t","e","r","n","a","l"," ","e","r","r","o","r">>,
    <<"D","e","a","d","l","i","n","e"," ","e","x","c","e","e","d","e","d">>
  }

\* the raw text of the scenario of the specification
ScenarioText ==
  <<"H","e","r","e"," ","i","s"," ","t","h","e"," ","t","r","a","n","s","c","r","i","p","t","i","o","n",":"," ","N","i","k","o"," ","f","i","n","e"," ","l","e","o"," ","[","M","u","s","i","c","]">>

\* response texts the provider returns in the pipeline
ResponseTexts ==
  {
    ScenarioText,
    <<"[","M","u","s","i","c","]","\n">>,
    <<"N","i","k","o"," ","t","h","e"," ","l","e","o">>
  }

\* ------------------------------------------------------------------------
\* Model rotation (switch_to_next_model, the except branch of transcribe_audio)
\* ------------------------------------------------------------------------

\* the four substrings that make an error a rate limit error (line 328)
rate_limit_markers ==
  {
    <<"r","a","t","e"," ","l","i","m","i","t">>,
    <<"4","2","9">>,
    <<"q","u","o","t","a">>,
    <<"r","e","s","o","u","r","c","e","_","e","x","h","a","u","s","t","e","d">>
  }

\* 'rate limit' in error_message or '429' in ... , error_message = str(e).lower()
IsRateLimit(message) ==
  \E marker \in rate_limit_markers : Contains(Lower(message), marker)

\* max_retries = len(self.model_names)
max_retries ==
  Len(model_names)

\* mutant of CanSwitch: the comparison off by one
CanSwitch_OffByOne(count) ==
  count < max_retries - 1

\* if retry_count < max_retries
CanSwitch(count) ==
  count < max_retries

\* (self.current_model_index + 1) % len(self.model_names)
NextIndex(index) ==
  (index + 1) % Len(model_names)

\* self.model_retry_count[name] += 1, the entry starting at 0 when absent
Incremented(counts, name) ==
  [n \in (DOMAIN counts) \cup {name} |->
     IF n = name THEN (IF n \in DOMAIN counts THEN counts[n] ELSE 0) + 1 ELSE counts[n]]

\* mutant of switch_to_next_model: the index and the name advance, the model
\* object is not rebuilt for the new name
switch_to_next_model_StaleModel(index) ==
  /\ current_model_index' = NextIndex(index)
  /\ current_model_name' = model_names[current_model_index' + 1]
  /\ gemini_model' = gemini_model
  /\ model_retry_count' = Incremented(model_retry_count, current_model_name')
  /\ model_names' = model_names
  /\ switch_calls' = switch_calls + 1

\* mutant of switch_to_next_model: the descriptor that hit the rate limit is
\* taken out of the list, and the next one of the shorter list is used
switch_to_next_model_DropsModel(index) ==
  /\ model_names' = SelectSeq(model_names, LAMBDA n : n # current_model_name)
  /\ current_model_index' = index % Len(model_names')
  /\ current_model_name' = model_names'[current_model_index' + 1]
  /\ gemini_model' = current_model_name'
  /\ model_retry_count' = Incremented(model_retry_count, current_model_name')
  /\ switch_calls' = switch_calls + 1

\* switch_to_next_model, called with self.current_model_index = index
switch_to_next_model(index) ==
  /\ current_model_index' = NextIndex(index)
  /\ current_model_name' = model_names[current_model_index' + 1]
  /\ gemini_model' = current_model_name'
  /\ model_retry_count' = Incremented(model_retry_count, current_model_name')
  /\ model_names' = model_names
  /\ switch_calls' = switch_calls + 1

\* ------------------------------------------------------------------------
\* Initial state: after GeminiTranscription.__init__, run() about to start
\* ------------------------------------------------------------------------

\* the locals of a unit and of its transcribe_audio call chain before the unit,
\* the response text apart
UnitIdle ==
  /\ retry_count = 0
  /\ err = NoError
  /\ file_state = NoState
  /\ uploaded_files = 0
  /\ audio_file = NoFile
  /\ transcription = None
  /\ processed = None
  /\ pending = "none"
  /\ success = NoResult
  /\ unlink_count = 0
  /\ chain_errors = 0
  /\ chain_switches = 0
  /\ chain_start_index = 0
  /\ after_reset = FALSE
  /\ last_outcome = "none"
  /\ review = "none"
  /\ poll_tick = 0
  /\ period_attempts = <<>>
  /\ period_switches = 0
  /\ delete_pending = 0
  /\ retry = None

\* the attributes __init__ sets
Constructed ==
  /\ model_names = ModelNames
  /\ current_model_index = 0
  /\ current_model_name = ModelNames[1]
  /\ gemini_model = ModelNames[1]
  /\ model_retry_count = [n \in {} |-> 0]
  /\ audio_count = 0
  /\ temp_files = {}
  /\ switch_calls = 0
  /\ interrupt = "none"

\* the text stages are not running on their own
TextIdle ==
  /\ again = None
  /\ single = None
  /\ transcription_3 = None
  /\ processed_strict = None

\* transcribe_audio of gemini_transcribe.py is not running on its own
UploadIdle ==
  /\ attempt = 0
  /\ upload_calls = 0

\* wait_for_submit is not running on its own
WaitIdle ==
  /\ program = "none"
  /\ page_at_start = NoPage
  /\ page = NoPage
  /\ current_id = NoPage.url
  /\ wait_polls = 0
  /\ wait_result = NoResult

Init ==
  /\ pc = "run_start"
  /\ Constructed
  /\ UnitIdle
  /\ response_text = None
  /\ quota_budget = MaxQuotaErrors
  /\ text_pc = "off"
  /\ TextIdle
  /\ UploadIdle
  /\ WaitIdle

\* ------------------------------------------------------------------------
\* transcribe_audio
\* ------------------------------------------------------------------------

RECURSIVE SumOver(_, _)
\* sum(counts[n] for n in names)
SumOver(counts, names) ==
  IF names = {} THEN 0
  ELSE LET n == CHOOSE x \in names : TRUE
       IN  counts[n] + SumOver(counts, names \ {n})

\* sum(self.model_retry_count.values()): the switches made in this run
TotalSwitches ==
  SumOver(model_retry_count, DOMAIN model_retry_count)

\* a provider call raises an exception with message m, caught by
\* `except Exception as e` of transcribe_audio
Raises(m) ==
  /\ IsRateLimit(m) => TotalSwitches < quota_budget
  /\ err' = m
  /\ chain_errors' = IF IsRateLimit(m) THEN chain_errors + 1 ELSE chain_errors
  /\ last_outcome' = IF IsRateLimit(m) THEN "quota" ELSE "other"
  /\ pc' = "ta_except"

\* genai.upload_file(audio_file)
upload_file ==
  /\ pc = "ta_upload"
  /\ after_reset' = FALSE
  /\ period_attempts' = Append(period_attempts, current_model_index)
  /\ \/ /\ \E state \in {"PROCESSING", "ACTIVE", "FAILED"} : file_state' = state
        /\ uploaded_files' = uploaded_files + 1
        /\ delete_pending' = delete_pending + 1
        /\ pc' = "ta_poll"
        /\ UNCHANGED <<err, chain_errors, last_outcome>>
     \/ /\ \E m \in ErrorMessages : Raises(m)
        /\ UNCHANGED <<file_state, uploaded_files, delete_pending>>
  /\ UNCHANGED <<rotation_vars, audio_count, retry_count, temp_files, audio_file,
                 response_text, transcription, processed, pending, success,
                 unlink_count, chain_switches, chain_start_index, review, interrupt, poll_tick, period_switches,
                 retry, apart_vars>>

\* one round of `while audio_file_obj.state.name == "PROCESSING"`: get_file
get_file ==
  /\ pc = "ta_poll"
  /\ file_state = "PROCESSING"
  /\ \/ /\ \E state \in {"PROCESSING", "ACTIVE", "FAILED"} : file_state' = state
        /\ poll_tick' = IF file_state' = "PROCESSING" THEN 1 - poll_tick ELSE 0
        /\ UNCHANGED <<pc, err, chain_errors, last_outcome>>
     \/ /\ \E m \in ErrorMessages : Raises(m)
        /\ poll_tick' = 0
        /\ UNCHANGED file_state
  /\ UNCHANGED <<rotation_vars, audio_count, retry_count, uploaded_files, temp_files,
                 audio_file, response_text, transcription, processed, pending, success,
                 unlink_count, chain_switches, chain_start_index, after_reset, review, interrupt, period_attempts, period_switches, delete_pending,
                 retry, apart_vars>>

\* the loop ended: `if audio_file_obj.state.name == "FAILED": return None`
check_processed ==
  /\ pc = "ta_poll"
  /\ file_state # "PROCESSING"
  /\ IF file_state = "FAILED"
     THEN /\ transcription' = None
          /\ last_outcome' = "failed"
          /\ pc' = "pa_check"
     ELSE /\ pc' = "ta_generate"
          /\ UNCHANGED <<transcription, last_outcome>>
  /\ UNCHANGED <<rotation_vars, audio_count, retry_count, err, file_state, uploaded_files,
                 temp_files, audio_file, response_text, processed, pending, success,
                 unlink_count, chain_errors, chain_switches, chain_start_index,
                 after_reset, review, interrupt, attempt_vars,
                 retry, apart_vars>>

\* self.gemini_model.generate_content(...)
generate_content ==
  /\ pc = "ta_generate"
  /\ \/ /\ \E text \in ResponseTexts : response_text' = text
        /\ pc' = "ta_delete"
        /\ UNCHANGED <<err, chain_errors, last_outcome>>
     \/ /\ \E m \in ErrorMessages : Raises(m)
        /\ UNCHANGED response_text
  /\ UNCHANGED <<rotation_vars, audio_count, retry_count, file_state, uploaded_files,
                 temp_files, audio_file, transcription, processed, pending, success,
                 unlink_count, chain_switches, chain_start_index, after_reset, review, interrupt, attempt_vars,
                 retry, apart_vars>>

\* mutant of delete_file: the call is not wrapped in try/except, and a delete
\* that fails raises into the handler of transcribe_audio
delete_file_Unprotected ==
  /\ pc = "ta_delete"
  /\ delete_pending' = delete_pending - 1
  /\ \/ /\ uploaded_files' = uploaded_files - 1
        /\ pc' = "ta_normalize"
        /\ UNCHANGED <<err, chain_errors, last_outcome>>
     \/ /\ \E m \in ErrorMessages : Raises(m)
        /\ UNCHANGED uploaded_files
  /\ UNCHANGED <<rotation_vars, audio_count, retry_count, file_state, temp_files,
                 audio_file, response_text, transcription, processed, pending, success,
                 unlink_count, chain_switches, chain_start_index,
                 after_reset, review, interrupt, poll_tick, period_attempts,
                 period_switches, retry, apart_vars>>

\* try: genai.delete_file(...) except: pass
delete_file ==
  /\ pc = "ta_delete"
  /\ \E deleted \in BOOLEAN :
        uploaded_files' = IF deleted THEN uploaded_files - 1 ELSE uploaded_files
  /\ delete_pending' = delete_pending - 1
  /\ pc' = "ta_normalize"
  /\ UNCHANGED <<rotation_vars, audio_count, retry_count, err, file_state, temp_files,
                 audio_file, response_text, transcription, processed, pending, success,
                 unlink_count, chain_errors, chain_switches, chain_start_index,
                 after_reset, last_outcome, review, interrupt, poll_tick, period_attempts, period_switches,
                 retry, apart_vars>>

\* the normalization of lines 293-319 on the texts the provider returns in
\* the pipeline
NormalizedResponse ==
  [text \in ResponseTexts |-> Normalize(text)]

\* mutant of normalize_and_return: a success makes the first model of the
\* list the current one again
normalize_and_return_ResetsIndex ==
  /\ pc = "ta_normalize"
  /\ transcription' = NormalizedResponse[response_text]
  /\ last_outcome' = "ok"
  /\ pc' = "pa_check"
  /\ current_model_index' = 0
  /\ current_model_name' = model_names[1]
  /\ gemini_model' = model_names[1]
  /\ UNCHANGED <<model_names, model_retry_count, switch_calls, audio_count, retry_count,
                 err, file_state, uploaded_files,
                 temp_files, audio_file, response_text, processed, pending, success,
                 unlink_count, chain_errors, chain_switches, chain_start_index,
                 after_reset, review, interrupt, attempt_vars,
                 retry, apart_vars>>

\* lines 293-322: the response text is normalized and returned
normalize_and_return ==
  /\ pc = "ta_normalize"
  /\ transcription' = NormalizedResponse[response_text]
  /\ last_outcome' = "ok"
  /\ pc' = "pa_check"
  /\ UNCHANGED <<rotation_vars, audio_count, retry_count, err, file_state, uploaded_files,
                 temp_files, audio_file, response_text, processed, pending, success,
                 unlink_count, chain_errors, chain_switches, chain_start_index,
                 after_reset, review, interrupt, attempt_vars,
                 retry, apart_vars>>

\* rate limit error, retry_count < max_retries: switch, sleep 3 s, recurse
\* with retry_count + 1
quota_switch ==
  /\ pc = "ta_except"
  /\ IsRateLimit(err)
  /\ CanSwitch(retry_count)
  /\ switch_to_next_model(current_model_index)
  /\ retry_count' = retry_count + 1
  /\ period_switches' = period_switches + 1
  /\ chain_switches' = chain_switches + 1
  /\ err' = NoError
  /\ file_state' = NoState
  /\ pc' = "ta_upload"
  /\ UNCHANGED <<audio_count, uploaded_files, temp_files, audio_file, response_text,
                 transcription, processed, pending, success, unlink_count, chain_errors,
                 chain_start_index, after_reset, last_outcome, review, interrupt, poll_tick, period_attempts, delete_pending,
                 retry, apart_vars>>

\* mutant of quota_exhausted: with all switches used the call gives up and
\* returns None
quota_exhausted_GivesUp ==
  /\ pc = "ta_except"
  /\ IsRateLimit(err)
  /\ ~CanSwitch(retry_count)
  /\ transcription' = None
  /\ err' = NoError
  /\ pc' = "pa_check"
  /\ UNCHANGED <<rotation_vars, audio_count, retry_count, file_state, uploaded_files,
                 temp_files, audio_file, response_text, processed, pending, success,
                 unlink_count, chain_errors, chain_switches, chain_start_index,
                 after_reset, last_outcome, review, interrupt, attempt_vars,
                 retry, apart_vars>>

\* mutant of quota_exhausted: the reset also starts the switch statistics
\* afresh (self.model_retry_count = {} before the switch)
quota_exhausted_ClearsCounts ==
  /\ pc = "ta_except"
  /\ IsRateLimit(err)
  /\ ~CanSwitch(retry_count)
  /\ current_model_index' = NextIndex(0)
  /\ current_model_name' = model_names[current_model_index' + 1]
  /\ gemini_model' = current_model_name'
  /\ model_retry_count' = Incremented([n \in {} |-> 0], current_model_name')
  /\ model_names' = model_names
  /\ switch_calls' = switch_calls + 1
  /\ retry_count' = 0
  /\ period_attempts' = <<>>
  /\ period_switches' = 0
  /\ chain_switches' = chain_switches + 1
  /\ after_reset' = TRUE
  /\ err' = NoError
  /\ file_state' = NoState
  /\ pc' = "ta_upload"
  /\ UNCHANGED <<audio_count, uploaded_files, temp_files, audio_file, response_text,
                 transcription, processed, pending, success, unlink_count, chain_errors,
                 chain_start_index, last_outcome, review, interrupt, poll_tick, delete_pending,
                 retry, apart_vars>>

\* rate limit error, all switches used: sleep 60 s, index reset to 0,
\* switch_to_next_model, recurse with retry_count 0
quota_exhausted ==
  /\ pc = "ta_except"
  /\ IsRateLimit(err)
  /\ ~CanSwitch(retry_count)
  /\ switch_to_next_model(0)
  /\ retry_count' = 0
  /\ period_attempts' = <<>>
  /\ period_switches' = 0
  /\ chain_switches' = chain_switches + 1
  /\ after_reset' = TRUE
  /\ err' = NoError
  /\ file_state' = NoState
  /\ pc' = "ta_upload"
  /\ UNCHANGED <<audio_count, uploaded_files, temp_files, audio_file, response_text,
                 transcription, processed, pending, success, unlink_count, chain_errors,
                 chain_start_index, last_outcome, review, interrupt, poll_tick, delete_pending,
                 retry, apart_vars>>

\* mutant of other_error: the error is retried on the next model like a
\* rate limit error
other_error_Retries ==
  /\ pc = "ta_except"
  /\ ~IsRateLimit(err)
  /\ switch_to_next_model(current_model_index)
  /\ retry_count' = retry_count + 1
  /\ period_switches' = period_switches + 1
  /\ chain_switches' = chain_switches + 1
  /\ err' = NoError
  /\ file_state' = NoState
  /\ pc' = "ta_upload"
  /\ UNCHANGED <<audio_count, uploaded_files, temp_files, audio_file, response_text,
                 transcription, processed, pending, success, unlink_count, chain_errors,
                 chain_start_index, after_reset, last_outcome, review, interrupt, poll_tick, period_attempts, delete_pending,
                 retry, apart_vars>>

\* mutant of other_error: the call is started over after any other error
\* (return self.transcribe_audio(audio_file, 0)), as after a cooldown
other_error_StartsOver ==
  /\ pc = "ta_except"
  /\ ~IsRateLimit(err)
  /\ retry_count' = 0
  /\ period_attempts' = <<>>
  /\ period_switches' = 0
  /\ uploaded_files' = 0
  /\ delete_pending' = 0
  /\ err' = NoError
  /\ file_state' = NoState
  /\ pc' = "ta_upload"
  /\ UNCHANGED <<rotation_vars, audio_count, temp_files, audio_file, response_text,
                 transcription, processed, pending, success, unlink_count, chain_errors,
                 chain_switches, chain_start_index, after_reset, last_outcome, review,
                 interrupt, poll_tick, retry, apart_vars>>

\* any other error: print, return None
other_error ==
  /\ pc = "ta_except"
  /\ ~IsRateLimit(err)
  /\ transcription' = None
  /\ err' = NoError
  /\ pc' = "pa_check"
  /\ UNCHANGED <<rotation_vars, audio_count, retry_count, file_state, uploaded_files,
                 temp_files, audio_file, response_text, processed, pending, success,
                 unlink_count, chain_errors, chain_switches, chain_start_index,
                 after_reset, last_outcome, review, interrupt, attempt_vars,
                 retry, apart_vars>>

\* the steps of transcribe_audio
transcribe_audio ==
  \/ upload_file
  \/ get_file
  \/ check_processed
  \/ generate_content
  \/ delete_file
  \/ normalize_and_return
  \/ quota_switch
  \/ quota_exhausted
  \/ other_error

\* ------------------------------------------------------------------------
\* process_audio
\* ------------------------------------------------------------------------

\* `if not transcription`: None and the empty text are both false
IsFalsy(text) ==
  text = None \/ text = <<>>

\* process_audio returns False before its try block: no file is held
ReturnFalseEarly ==
  /\ success' = "False"
  /\ pc' = "run_result"

\* self.audio_count += 1 and the banner: a unit begins
begin_unit ==
  /\ pc = "run_loop"
  /\ audio_count < MaxUnits
  /\ audio_count' = audio_count + 1
  /\ pc' = "pa_get_url"
  /\ retry_count' = 0
  /\ err' = NoError
  /\ file_state' = NoState
  /\ uploaded_files' = 0
  /\ audio_file' = NoFile
  /\ response_text' = None
  /\ transcription' = None
  /\ processed' = None
  /\ pending' = "none"
  /\ success' = NoResult
  /\ unlink_count' = 0
  /\ chain_errors' = 0
  /\ chain_switches' = 0
  /\ chain_start_index' = current_model_index
  /\ after_reset' = FALSE
  /\ last_outcome' = "none"
  /\ review' = "none"
  /\ poll_tick' = 0
  /\ period_attempts' = <<>>
  /\ period_switches' = 0
  /\ delete_pending' = 0
  /\ retry' = None
  /\ UNCHANGED <<rotation_vars, temp_files, interrupt, apart_vars>>

\* audio_url = self.get_audio_url(); if not audio_url: return False
get_audio_url ==
  /\ pc = "pa_get_url"
  /\ \E found \in BOOLEAN :
        IF found THEN pc' = "pa_download" /\ UNCHANGED success
        ELSE ReturnFalseEarly
  /\ UNCHANGED <<rotation_vars, call_vars, audio_count, temp_files, audio_file,
                 transcription, processed, pending, unlink_count, review, interrupt, attempt_vars,
                 retry, apart_vars>>

\* audio_file = self.download_audio(audio_url); if not audio_file: return False.
\* The request can fail before the temporary file exists; writing the chunks
\* can fail after NamedTemporaryFile(delete=False) created it; both return None
download_audio ==
  /\ pc = "pa_download"
  /\ \E outcome \in {"request_failed", "write_failed", "downloaded"} :
        /\ temp_files' = IF outcome = "request_failed" THEN temp_files
                         ELSE temp_files \cup {audio_count}
        /\ IF outcome = "downloaded"
           THEN /\ audio_file' = audio_count
                /\ pc' = "ta_upload"
                /\ UNCHANGED success
           ELSE /\ ReturnFalseEarly
                /\ UNCHANGED audio_file
  /\ UNCHANGED <<rotation_vars, call_vars, audio_count, transcription, processed,
                 pending, unlink_count, review, interrupt, attempt_vars,
                 retry, apart_vars>>

\* transcribe_audio returned: `if not transcription: return False`
check_transcription ==
  /\ pc = "pa_check"
  /\ IF IsFalsy(transcription)
     THEN pending' = "return False" /\ pc' = "pa_finally"
     ELSE pc' = "pa_detect" /\ UNCHANGED pending
  /\ delete_pending' = 0
  /\ UNCHANGED <<rotation_vars, call_vars, audio_count, temp_files, audio_file,
                 transcription, processed, success, unlink_count, review, interrupt,
                 poll_tick, period_attempts, period_switches, retry, apart_vars>>

\* processed = self.detect_code_switching(transcription)
annotate ==
  /\ pc = "pa_detect"
  /\ processed' = detect_code_switching(transcription)
  /\ pc' = "pa_insert"
  /\ UNCHANGED <<rotation_vars, call_vars, audio_count, temp_files, audio_file,
                 transcription, pending, success, unlink_count, review, interrupt, attempt_vars,
                 retry, apart_vars>>

\* if not self.insert_transcription(processed): return False
insert_transcription ==
  /\ pc = "pa_insert"
  /\ \E inserted \in BOOLEAN :
        IF inserted THEN pc' = "pa_wait" /\ UNCHANGED pending
        ELSE pending' = "return False" /\ pc' = "pa_finally"
  /\ UNCHANGED <<rotation_vars, call_vars, audio_count, temp_files, audio_file,
                 transcription, processed, success, unlink_count, review, interrupt, attempt_vars,
                 retry, apart_vars>>

\* return self.wait_for_submit(): True on a detected submission (the textarea
\* cleared or the URL changed), False when the 600 s elapsed without one
\* ("Timeout") and False on an exception caught while polling ("Error")
wait_for_submit ==
  /\ pc = "pa_wait"
  /\ \E outcome \in {"submitted", "timeout", "error"} :
        /\ review' = outcome
        /\ pending' = IF outcome = "submitted" THEN "return True" ELSE "return False"
  /\ pc' = "pa_finally"
  /\ UNCHANGED <<rotation_vars, call_vars, audio_count, temp_files, audio_file,
                 transcription, processed, success, unlink_count, interrupt, attempt_vars,
                 retry, apart_vars>>

\* an exception leaves the try block of process_audio: raised by a statement
\* of the block that no handler of a callee encloses (the prints and the
\* annotation of lines 485-489, the banner of wait_for_submit)
step_raises ==
  /\ pc \in {"pa_detect", "pa_wait"}
  /\ pending' = "raise"
  /\ pc' = "pa_finally"
  /\ UNCHANGED <<rotation_vars, call_vars, audio_count, temp_files, audio_file,
                 transcription, processed, success, unlink_count, review, interrupt, attempt_vars,
                 retry, apart_vars>>

\* the finally clause is done and what left the try block takes effect: the
\* return value reaches run, an Exception reaches run's `except Exception`,
\* a KeyboardInterrupt reaches run's `except KeyboardInterrupt: break`
leave_finally ==
  CASE pending = "raise" ->
         pc' = "run_except" /\ UNCHANGED success
    [] pending = "KeyboardInterrupt" ->
         pc' = "run_summary" /\ UNCHANGED success
    [] OTHER ->
         /\ success' = IF pending = "return True" THEN "True" ELSE "False"
         /\ pc' = "run_result"

\* mutant of cleanup: the unlink follows the try block instead of being its
\* finally clause, so an exception skips it
cleanup_NotOnRaise ==
  /\ pc = "pa_finally"
  /\ temp_files' = IF pending = "raise" THEN temp_files ELSE temp_files \ {audio_file}
  /\ unlink_count' = IF pending # "raise" /\ audio_file \in temp_files
                     THEN unlink_count + 1 ELSE unlink_count
  /\ leave_finally
  /\ UNCHANGED <<rotation_vars, call_vars, audio_count, audio_file, transcription,
                 processed, pending, review, interrupt, attempt_vars,
                 retry, apart_vars>>

\* finally: try: os.unlink(audio_file) except: pass; then the pending return
\* or exception takes effect
cleanup ==
  /\ pc = "pa_finally"
  /\ temp_files' = temp_files \ {audio_file}
  /\ unlink_count' = IF audio_file \in temp_files THEN unlink_count + 1 ELSE unlink_count
  /\ leave_finally
  /\ UNCHANGED <<rotation_vars, call_vars, audio_count, audio_file, transcription,
                 processed, pending, review, interrupt, attempt_vars,
                 retry, apart_vars>>

\* the steps of process_audio outside transcribe_audio
process_audio ==
  \/ begin_unit
  \/ get_audio_url
  \/ download_audio
  \/ check_transcription
  \/ annotate
  \/ insert_transcription
  \/ wait_for_submit
  \/ step_raises
  \/ cleanup

\* ------------------------------------------------------------------------
\* run
\* ------------------------------------------------------------------------

\* the variables run itself leaves alone
unit_vars ==
  <<rotation_vars, call_vars, audio_count, temp_files, audio_file, transcription,
    processed, pending, success, unlink_count, review, interrupt, attempt_vars,
    retry, apart_vars>>

\* what the prompt of run leaves alone
prompt_frame ==
  <<rotation_vars, call_vars, audio_count, temp_files, audio_file, transcription,
    processed, pending, success, unlink_count, review, interrupt, attempt_vars,
    apart_vars>>

\* setup_driver, check_login: `if not self.check_login(): return`
check_login ==
  /\ pc = "run_start"
  /\ \E logged_in \in BOOLEAN :
        pc' = IF logged_in THEN "run_loop" ELSE "run_closed"
  /\ UNCHANGED unit_vars

\* success = self.process_audio() returned
unit_result ==
  /\ pc = "run_result"
  /\ pc' = IF success = "True" THEN "run_loop" ELSE "run_prompt"
  /\ UNCHANGED unit_vars

\* what the operator can type at the prompt
Answers ==
  {<<"y">>, <<"Y">>, <<"n">>, <<>>}

\* retry = input("Try again? (y/n): ").lower(): break unless it is y; with
\* the standard input at its end input raises EOFError, which the loop's
\* `except Exception` catches
retry_prompt ==
  /\ pc = "run_prompt"
  /\ \/ \E typed \in Answers :
           /\ retry' = Lower(typed)
           /\ pc' = IF retry' = <<"y">> THEN "run_loop" ELSE "run_summary"
     \/ /\ pc' = "run_except"
        /\ UNCHANGED retry
  /\ UNCHANGED prompt_frame

\* mutant of unit_exception: the loop has no `except Exception` clause, and
\* the exception of a unit ends the loop
unit_exception_EndsRun ==
  /\ pc = "run_except"
  /\ pc' = "run_summary"
  /\ UNCHANGED unit_vars

\* except Exception: print, sleep 3 s, next round of the loop
unit_exception ==
  /\ pc = "run_except"
  /\ pc' = "run_loop"
  /\ UNCHANGED unit_vars

\* the session summary, then finally: the browser is closed
session_summary ==
  /\ pc = "run_summary"
  /\ pc' = "run_closed"
  /\ UNCHANGED unit_vars

\* the steps of run
run ==
  \/ check_login
  \/ unit_result
  \/ retry_prompt
  \/ unit_exception
  \/ session_summary

Next ==
  \/ run
  \/ process_audio
  \/ transcribe_audio

Spec ==
  Init /\ [][Next]_vars

\* the positions at which control is in run, outside process_audio
RunPositions ==
  {"run_start", "run_loop", "run_result", "run_prompt", "run_except", "run_summary",
   "run_closed"}

\* the positions inside transcribe_audio
CallPositions ==
  {"ta_upload", "ta_poll", "ta_generate", "ta_delete", "ta_normalize", "ta_except"}

\* the positions inside process_audio, transcribe_audio included
UnitPositions ==
  {"pa_get_url", "pa_download", "pa_check", "pa_detect", "pa_insert", "pa_wait",
   "pa_finally"} \cup CallPositions

\* the positions inside `while True` of run
LoopPositions ==
  {"run_loop", "run_result", "run_prompt", "run_except"} \cup UnitPositions

\* ------------------------------------------------------------------------
\* Cancellation: the operator's Ctrl-C raises KeyboardInterrupt in the single
\* control thread, at the statement it is executing. KeyboardInterrupt is
\* not an Exception: `except Exception` lets it pass, a bare `except:`
\* catches it. The first signal of a run is followed.
\* ------------------------------------------------------------------------

\* the signal arrives in the body of run's loop outside process_audio: in the
\* loop's try block (the call, the prompt, the sleep) `except
\* KeyboardInterrupt: break` ends the loop; in the `except Exception` handler
\* nothing of the loop catches it and run is left through its finally
interrupt_in_loop ==
  /\ pc \in {"run_loop", "run_result", "run_prompt", "run_except"}
  /\ interrupt = "none"
  /\ interrupt' = "in_loop"
  /\ pc' = IF pc = "run_except" THEN "run_closed" ELSE "run_summary"
  /\ UNCHANGED <<rotation_vars, call_vars, audio_count, temp_files, audio_file,
                 transcription, processed, pending, success, unlink_count, review,
                 attempt_vars,
                 retry, apart_vars>>

\* the signal arrives in process_audio before its try block: in
\* get_audio_url outside the two bare-except blocks, or in download_audio
\* (`except Exception` does not catch it) before or after
\* NamedTemporaryFile(delete=False) created the file; it reaches run's
\* `except KeyboardInterrupt: break` with no finally clause on the way
interrupt_in_acquisition ==
  /\ pc \in {"pa_get_url", "pa_download"}
  /\ interrupt = "none"
  /\ interrupt' = "in_unit"
  /\ \E created \in BOOLEAN :
        temp_files' = IF pc = "pa_download" /\ created
                      THEN temp_files \cup {audio_count} ELSE temp_files
  /\ pc' = "run_summary"
  /\ UNCHANGED <<rotation_vars, call_vars, audio_count, audio_file, transcription,
                 processed, pending, success, unlink_count, review, attempt_vars,
                 retry, apart_vars>>

\* the signal arrives in the try block of process_audio at a statement no
\* bare except encloses (transcribe_audio and its handler, the annotation,
\* insert_transcription, the sleep of wait_for_submit): it leaves the block
\* through the finally clause
interrupt_in_try ==
  /\ pc \in {"ta_upload", "ta_poll", "ta_generate", "ta_normalize", "ta_except",
              "pa_check", "pa_detect", "pa_insert", "pa_wait"}
  /\ interrupt = "none"
  /\ interrupt' = "in_unit"
  /\ pending' = "KeyboardInterrupt"
  /\ pc' = "pa_finally"
  /\ UNCHANGED <<rotation_vars, call_vars, audio_count, temp_files, audio_file,
                 transcription, processed, success, unlink_count, review, attempt_vars,
                 retry, apart_vars>>

\* the signal arrives inside a bare `except:` block, which catches it and
\* goes on: the element lookups of get_audio_url (lines 153, 165), the
\* delete_file of transcribe_audio (290), the textarea check of
\* wait_for_submit (447), the os.unlink of the finally clause (502), where it
\* can come before os.unlink was called
interrupt_swallowed ==
  /\ pc \in {"pa_get_url", "ta_delete", "pa_wait", "pa_finally"}
  /\ interrupt = "none"
  /\ interrupt' = "swallowed"
  /\ CASE pc = "pa_get_url" ->
            /\ \E found \in BOOLEAN :
                  IF found THEN pc' = "pa_download" /\ UNCHANGED success
                  ELSE ReturnFalseEarly
            /\ UNCHANGED <<uploaded_files, temp_files, unlink_count, delete_pending>>
       [] pc = "ta_delete" ->
            /\ \E deleted \in BOOLEAN :
                  uploaded_files' = IF deleted THEN uploaded_files - 1 ELSE uploaded_files
            /\ delete_pending' = delete_pending - 1
            /\ pc' = "ta_normalize"
            /\ UNCHANGED <<temp_files, success, unlink_count>>
       [] pc = "pa_wait" ->
            UNCHANGED <<pc, uploaded_files, temp_files, success, unlink_count,
                        delete_pending>>
       [] pc = "pa_finally" ->
            /\ \E unlinked \in BOOLEAN :
                  /\ temp_files' = IF unlinked THEN temp_files \ {audio_file} ELSE temp_files
                  /\ unlink_count' = IF unlinked /\ audio_file \in temp_files
                                     THEN unlink_count + 1 ELSE unlink_count
            /\ leave_finally
            /\ UNCHANGED <<uploaded_files, delete_pending>>
  /\ UNCHANGED <<rotation_vars, retry_count, err, file_state, response_text,
                 chain_errors, chain_switches, chain_start_index, after_reset,
                 last_outcome, audio_count, audio_file, transcription, processed,
                 pending, review, poll_tick, period_attempts,
                 period_switches, retry, apart_vars>>

\* a KeyboardInterrupt is raised somewhere in the loop of run
keyboard_interrupt ==
  \/ interrupt_in_loop
  \/ interrupt_in_acquisition
  \/ interrupt_in_try
  \/ interrupt_swallowed

NextCancel ==
  \/ Next
  \/ keyboard_interrupt

\* the run with an operator who may press Ctrl-C
SpecCancel ==
  Init /\ [][NextCancel]_vars

\* ------------------------------------------------------------------------
\* Properties of the model rotation
\* ------------------------------------------------------------------------

\* C1: for a list of N descriptors, once a transcribe_audio call chain has
\* caught and handled N quota-exceeded errors, it has made exactly N calls of
\* switch_to_next_model and current_model_index is again the index the chain
\* started with.
C1_RotationCycle ==
  (chain_errors = Len(model_names) /\ pc # "ta_except")
    => /\ chain_switches = Len(model_names)
       /\ current_model_index = chain_start_index

\* C1 witness: the N-th quota error of a chain was handled and the next
\* attempt is about to be made with the descriptor the chain began with
C1_Witness ==
  /\ pc = "ta_upload"
  /\ chain_errors = Len(model_names)
  /\ retry_count = Len(model_names)
  /\ current_model_index = chain_start_index

\* C2: after the exhaustion branch (quota error with retry_count = N) the
\* next provider attempt is made with the first descriptor
\* (current_model_index = 0) and with the attempt counter reset to zero.
C2_ResetToFirst ==
  (after_reset /\ pc = "ta_upload")
    => (current_model_index = 0 /\ retry_count = 0)

\* C3: transcribe_audio never returns None as the outcome of a quota-exceeded
\* error: the handling of every quota-exceeded error leads to another provider
\* attempt (the upload of the next call), and whenever the call returns None
\* the attempt that ended it failed for a reason other than quota (another
\* exception, or the service reporting the processing as FAILED).
C3_NeverGivesUpOnQuota ==
  [][ /\ (pc = "ta_except" /\ IsRateLimit(err))
           => (pc' = "ta_upload" /\ transcription' = transcription)
      /\ (pc \in CallPositions /\ pc' = "pa_check" /\ transcription' = None)
           => (last_outcome' \in {"other", "failed"} /\ ~IsRateLimit(err)) ]_vars

\* C3 witness: more quota errors than there are descriptors were caught in
\* one chain, and the controller is attempting the provider again
C3_Witness ==
  /\ pc = "ta_upload"
  /\ chain_errors > Len(model_names)
  /\ last_outcome = "quota"

\* C4: a non-quota provider error ends the call: the handler returns None
\* without switching the model, without touching the attempt counter and
\* without another provider attempt; process_audio then returns False through
\* its finally block, and run reports the failed unit (the retry prompt).
C4_OtherErrorIsTerminal ==
  /\ [][ /\ (pc = "ta_except" /\ ~IsRateLimit(err))
              => /\ pc' = "pa_check"
                 /\ transcription' = None
                 /\ UNCHANGED <<rotation_vars, retry_count, chain_switches>>
         /\ (pc = "pa_check" /\ transcription = None)
              => (pc' = "pa_finally" /\ pending' = "return False")
         /\ (pc = "pa_finally" /\ pending = "return False")
              => (pc' = "run_result" /\ success' = "False")
         /\ (pc = "run_result" /\ success = "False") => pc' = "run_prompt" ]_vars
  /\ [](last_outcome = "other"
          => pc \in {"ta_except", "pa_check", "pa_finally"} \cup RunPositions)

\* C4 witness: a unit whose last provider attempt raised a non-quota error
\* was reported as failed to the operator
C4_Witness ==
  /\ pc = "run_prompt"
  /\ last_outcome = "other"
  /\ success = "False"
  /\ transcription = None

\* ------------------------------------------------------------------------
\* Properties of the temporary audio file
\* ------------------------------------------------------------------------

\* C5: for every unit whose audio was acquired (download_audio returned a
\* file), the file exists and has not been deleted while the unit is in its
\* try block, and when process_audio has returned or raised the file has
\* been deleted exactly once, whichever way the try block was left.
C5_CleanupAlways ==
  /\ (audio_file # NoFile /\ pc \in RunPositions)
       => (unlink_count = 1 /\ audio_file \notin temp_files)
  /\ (audio_file # NoFile /\ pc \notin RunPositions)
       => (unlink_count = 0 /\ audio_file \in temp_files)

\* C5 witness: a unit with an acquired file ended by an exception, after its
\* file was deleted once
C5_Witness ==
  /\ pc = "run_except"
  /\ audio_file # NoFile
  /\ unlink_count = 1
  /\ audio_file \notin temp_files

\* C6: at every point where no unit is in progress, no temporary audio file
\* exists, also when the download failed after the file was created.
C6_NoFileOutlivesUnit ==
  pc \in RunPositions => temp_files = {}

\* ------------------------------------------------------------------------
\* The text stages on their own: normalization and code-switch detection
\* applied to bounded sets of input texts
\* ------------------------------------------------------------------------

\* pieces of the artifact inputs (concatenated)
MaxArtifactPieces ==
  1

\* pieces of the fragment inputs (concatenated)
MaxFragmentPieces ==
  3

\* words of the token inputs (joined by single spaces)
MaxTokens ==
  3

\* the sequences over S of length at most n
SeqsUpTo(S, n) ==
  UNION {[1..k -> S] : k \in 0..n}

\* the listed artifacts and whitespace
ArtifactPieces ==
  Range(artifacts) \cup {<<" ">>, <<"\n">>}

\* halves of an artifact, an artifact, markdown, whitespace and a plain word
FragmentPieces ==
  {
    <<"[","M","u">>,
    <<"s","i","c","]">>,
    <<"[","M","u","s","i","c","]">>,
    <<"*">>,
    <<" ">>,
    <<"A","s","a","n","t","e">>
  }

\* words of response texts: plain, stop words, words with English cues
TokenPieces ==
  {
    <<"o","t","h","e","r">>,
    <<"f","i","n","e">>,
    <<"l","e","o">>,
    <<"n","a">>,
    <<"T","h","e">>,
    <<"r","u","n","n","i","n","g",",">>,
    <<"t","h","a","t","'","s">>,
    <<"[","c","s","]">>
  }

\* the response texts the text stages are applied to
Inputs ==
  {Concat(p) : p \in SeqsUpTo(ArtifactPieces, MaxArtifactPieces)}
    \cup {Concat(p) : p \in SeqsUpTo(FragmentPieces, MaxFragmentPieces)}
    \cup {Join(p) : p \in SeqsUpTo(TokenPieces, MaxTokens)}
    \cup {ScenarioText}

\* a response text arrived; nothing else of the pipeline is running
InitText ==
  /\ pc = "off"
  /\ Constructed
  /\ UnitIdle
  /\ response_text \in Inputs
  /\ quota_budget = MaxQuotaErrors
  /\ text_pc = "raw"
  /\ TextIdle
  /\ UploadIdle
  /\ WaitIdle

\* the variables the text stages leave alone
pipeline_vars ==
  <<pc, rotation_vars, audio_count, retry_count, err, file_state, uploaded_files,
    temp_files, audio_file, pending, success, unlink_count, chain_errors,
    chain_switches, chain_start_index, after_reset, last_outcome, review, interrupt,
    attempt_vars, upload_vars, wait_vars, quota_budget, retry>>

\* what transcribe_audio returns for the response text: the normalization
\* of the two Gemini scripts, and the strip() of transcribe_3.py
text_normalize ==
  /\ text_pc = "raw"
  /\ transcription' = Normalize(response_text)
  /\ single' = Normalize_single(response_text)
  /\ transcription_3' = transcribe_audio_3(response_text)
  /\ text_pc' = "normalized"
  /\ UNCHANGED <<pipeline_vars, response_text, processed, again, processed_strict>>

\* detect_code_switching applied to the normalized text, as process_audio does
text_annotate ==
  /\ text_pc = "normalized"
  /\ processed' = detect_code_switching(transcription)
  /\ processed_strict' = detect_code_switching_3(transcription_3, TRUE)
  /\ text_pc' = "annotated"
  /\ UNCHANGED <<pipeline_vars, response_text, transcription, again, single,
                 transcription_3>>

\* the normalization applied to its own result
text_normalize_again ==
  /\ text_pc = "annotated"
  /\ again' = Normalize(transcription)
  /\ text_pc' = "renormalized"
  /\ UNCHANGED <<pipeline_vars, response_text, transcription, processed, single,
                 transcription_3, processed_strict>>

NextText ==
  \/ text_normalize
  \/ text_annotate
  \/ text_normalize_again

SpecText ==
  InitText /\ [][NextText]_vars

\* ------------------------------------------------------------------------
\* Properties of the text stages
\* ------------------------------------------------------------------------

RECURSIVE OnlyArtifactsAndWhitespace(_, _)
\* the text is a concatenation of whitespace characters and artifacts of the
\* list arts
OnlyArtifactsAndWhitespace(s, arts) ==
  \/ s = <<>>
  \/ /\ Head(s) \in Whitespace
     /\ OnlyArtifactsAndWhitespace(Tail(s), arts)
  \/ \E a \in Range(arts) :
       /\ StartsWithAt(s, a, 1)
       /\ OnlyArtifactsAndWhitespace(SubSeq(s, Len(a) + 1, Len(s)), arts)

\* "Niko fine leo"
NikoFineLeo ==
  <<"N","i","k","o"," ","f","i","n","e"," ","l","e","o">>

\* "Niko [cs] fine leo"
NikoCsFineLeo ==
  <<"N","i","k","o"," ","[","c","s","]"," ","f","i","n","e"," ","l","e","o">>

\* C7: the normalization is idempotent: applied to its own result it returns
\* that result.
C7_Idempotent ==
  text_pc = "renormalized" => again = transcription

\* C8: the normalization, in each of its two variants, returns a text for
\* every input text, the empty text included, and returns the empty text for
\* an input that consists only of artifacts of its list and whitespace.
C8_TotalAndEmptyOnArtifacts ==
  text_pc # "raw"
    => /\ transcription # None /\ single # None
       /\ response_text = <<>> => (transcription = <<>> /\ single = <<>>)
       /\ OnlyArtifactsAndWhitespace(response_text, artifacts) => transcription = <<>>
       /\ OnlyArtifactsAndWhitespace(response_text, artifacts_single) => single = <<>>

\* C9 as stated: the scenario text is normalized to "Niko fine leo" and
\* marked as "Niko [cs] fine leo".
C9_ScenarioMarked ==
  (text_pc = "annotated" /\ response_text = ScenarioText)
    => (transcription = NikoFineLeo /\ processed = NikoCsFineLeo)

\* C9 amended: the scenario text is normalized to "Niko fine leo", and
\* detect_code_switching in marking mode returns it unchanged: no token of
\* it, "fine" included, is classified as foreign (in either variant).
C9_ScenarioUnmarked ==
  (text_pc = "annotated" /\ response_text = ScenarioText)
    => /\ transcription = NikoFineLeo
       /\ single = NikoFineLeo
       /\ processed = NikoFineLeo
       /\ detect_code_switching_3(transcription, FALSE) = NikoFineLeo
       /\ ForeignCount(transcription, swahili_common, english_pattern) = 0

\* C9 witness: the scenario text went through normalization and annotation
C9_Witness ==
  /\ text_pc = "annotated"
  /\ response_text = ScenarioText
  /\ processed = NikoFineLeo

\* C10 as stated: marking preserves the number of whitespace-delimited tokens.
C10_TokenCountPreserved ==
  text_pc = "annotated" => TokenCount(processed) = TokenCount(transcription)

\* C10 amended: the output of the marking mode has one token more per word
\* classified as foreign: its token count is the input's token count plus the
\* number of marked words (equal to the input's only when no word is marked).
C10_TokenCountPlusMarkers ==
  text_pc = "annotated"
    => /\ TokenCount(processed)
            = TokenCount(transcription)
                + ForeignCount(transcription, swahili_common, english_pattern)
       /\ TokenCount(detect_code_switching_3(response_text, FALSE))
            = TokenCount(response_text)
                + ForeignCount(response_text, swahili_common_3, english_indicators)

\* C10 witness: a text of three words, two of them marked
C10_Witness ==
  /\ text_pc = "annotated"
  /\ TokenCount(transcription) = 3
  /\ ForeignCount(transcription, swahili_common, english_pattern) = 2
  /\ TokenCount(processed) = 5

\* ------------------------------------------------------------------------
\* Properties of the rotation state and of the switch statistics
\* ------------------------------------------------------------------------

\* C11: in the scenario where the provider answers quota-exceeded under
\* descriptor[0] and under descriptor[1] and then succeeds under
\* descriptor[2] (the first unit of a run), transcribe_audio returns the text
\* produced under descriptor[2] and the switch-count map is then exactly
\* {descriptor[0]: 1, descriptor[1]: 1}: each switch is counted against the
\* descriptor that hit the error, and descriptor[2] has no count.
C11_CountedAgainstFailing ==
  (audio_count = 1 /\ pc = "pa_check" /\ last_outcome = "ok" /\ chain_errors = 2)
    => /\ gemini_model = model_names[3]
       /\ model_retry_count = (model_names[1] :> 1 @@ model_names[2] :> 1)

\* C12: in every reachable state current_model_name is an element of
\* model_names and is model_names[current_model_index], and the model object
\* that serves the generation requests was built for that name.
C12_ConfiguredDescriptor ==
  /\ current_model_index \in 0..(Len(model_names) - 1)
  /\ current_model_name \in Range(model_names)
  /\ current_model_name = model_names[current_model_index + 1]
  /\ gemini_model = current_model_name

\* C12 witness: a generation request was answered after the controller had
\* switched away from the first descriptor
C12_Witness ==
  /\ pc = "ta_delete"
  /\ switch_calls > 0
  /\ current_model_index # 0
  /\ gemini_model = model_names[current_model_index + 1]

\* C16: in every reachable state current_model_index is a valid index of
\* model_names (0 <= index < N) and model_names is the list __init__ set:
\* rotation and reset never add, remove or reorder a descriptor.
C16_IndexValidListFixed ==
  /\ current_model_index \in Nat
  /\ current_model_index < Len(model_names)
  /\ model_names = ModelNames

\* C16 witness: the index wrapped around the end of the list and the
\* exhaustion reset ran, with the list as configured
C16_Witness ==
  /\ pc = "ta_upload"
  /\ after_reset
  /\ chain_switches > Len(model_names)
  /\ model_names = ModelNames

\* C17: no switch count of model_retry_count ever decreases or disappears,
\* whatever the step (units, switches, exhaustion resets), and the sum of the
\* switch counts is the number of switch_to_next_model calls made so far.
C17_CountsNeverDecrease ==
  /\ [][\A n \in DOMAIN model_retry_count :
          /\ n \in DOMAIN model_retry_count'
          /\ model_retry_count'[n] >= model_retry_count[n]]_vars
  /\ [](TotalSwitches = switch_calls)

\* C17 witness: a second unit is running after switches and an exhaustion
\* reset, and one descriptor has been switched to twice
C17_Witness ==
  /\ audio_count = 2
  /\ pc = "ta_upload"
  /\ switch_calls > Len(model_names)
  /\ \E n \in DOMAIN model_retry_count : model_retry_count[n] = 2

\* ------------------------------------------------------------------------
\* Properties of the run loop
\* ------------------------------------------------------------------------

\* C13: when the review wait elapsed without a submission signal, the unit is
\* reported as failed and the run goes on to the next unit by itself: from
\* the failed result the loop starts its next round, with no operator answer
\* in between and without the run being ended.
C13_TimeoutContinues ==
  /\ [](review = "timeout" /\ pc = "run_result" => success = "False")
  /\ [][(review = "timeout" /\ pc = "run_result") => pc' = "run_loop"]_vars

\* C14: a KeyboardInterrupt raised at any point of the run loop ends the run:
\* once it was raised the loop starts no further unit, and when it came
\* during a unit, that unit's temporary audio file does not exist any more
\* when the run has ended; also when it was raised in the acquisition step
\* or inside a block that catches every exception.
C14_InterruptEndsRun ==
  /\ [][interrupt # "none" => ~(pc = "run_loop" /\ pc' = "pa_get_url")]_vars
  /\ []((interrupt \in {"in_unit", "swallowed"} /\ pc \in {"run_summary", "run_closed"})
          => audio_count \notin temp_files)

\* a step that takes control out of the loop of run
EndsLoop ==
  pc \in LoopPositions /\ pc' \notin LoopPositions

\* C15: once the loop of run has started, control leaves it only by the
\* operator declining the retry or by a KeyboardInterrupt; a unit that fails
\* by returning False is reported and leads to the retry prompt, a unit that
\* raises is caught by the loop, which goes to its next round.
C15_OnlyDeclineOrCancelEnds ==
  [][ /\ EndsLoop => \/ (pc = "run_prompt" /\ pc' = "run_summary")
                      \/ interrupt' # interrupt
                      \/ (pc = "pa_finally" /\ pending = "KeyboardInterrupt")
      /\ (pc = "run_result" /\ success = "False" /\ interrupt' = interrupt)
            => pc' = "run_prompt"
      /\ (pc = "run_except" /\ interrupt' = interrupt) => pc' = "run_loop" ]_vars

\* C15 witness: a unit ended by an exception raised in process_audio, and
\* the loop is at the start of its next round
C15_Witness ==
  /\ pc = "run_loop"
  /\ pending = "raise"
  /\ audio_count >= 1
  /\ interrupt = "none"

\* C19: audio_count is incremented once per unit and only when the unit's
\* audio file has been released: it changes only in the step that ends the
\* finally clause of process_audio, so a unit that is in flight or that ended
\* before or during the acquisition is not counted.
C19_CountedAfterRelease ==
  [][audio_count' # audio_count
       => /\ pc = "pa_finally"
          /\ audio_count' = audio_count + 1
          /\ audio_file \notin temp_files']_vars

\* ------------------------------------------------------------------------
\* Properties of the text that reaches the review surface
\* ------------------------------------------------------------------------

\* the texts a normalization stage makes of a text
Normalizations(text) ==
  {Normalize(text), Normalize_single(text)}

\* C18: in every provider variant the text handed to the annotation and then
\* to insert_transcription is the provider's text after the normalization
\* stage (artifact stripping and whitespace collapse): for the two Gemini
\* scripts and for the transcribe_audio_* methods of transcribe_3.py.
C18_NormalizedBeforeAnnotation ==
  text_pc # "raw"
    => /\ transcription \in Normalizations(response_text)
       /\ single \in Normalizations(response_text)
       /\ transcription_3 \in Normalizations(response_text)

RECURSIVE KeyPartsFrom(_, _, _)
\* the parts of key from position i on, cur being the part read so far
KeyPartsFrom(key, i, cur) ==
  IF i > Len(key) THEN {cur}
  ELSE IF key[i] = "'" THEN {cur} \cup KeyPartsFrom(key, i + 1, <<>>)
       ELSE KeyPartsFrom(key, i + 1, Append(cur, key[i]))

\* the parts into which the apostrophes divide a comparison key
KeyParts(key) ==
  KeyPartsFrom(key, 1, <<>>)

\* the suffix and letter tests on a comparison key
SuffixOrLetter(key) ==
  \/ \E suffix \in english_suffixes : EndsWith(key, suffix)
  \/ \E c \in foreign_letters : c \in Range(key)

\* the rule of C20 as stated: the whole key is a listed function word
ForeignByWholeKey(key, common, listed) ==
  /\ key # <<>>
  /\ key \notin common
  /\ (key \in listed \/ SuffixOrLetter(key))

\* the rule of C20 as amended: the key or one of its apostrophe-delimited
\* parts is a listed function word
ForeignByPart(key, common, listed) ==
  /\ key # <<>>
  /\ key \notin common
  /\ ((\E part \in KeyParts(key) : part \in listed) \/ SuffixOrLetter(key))

\* the words, those flagged each preceded by "[cs] ", joined by single spaces
MarkFlagged(words, flagged) ==
  Join([k \in DOMAIN words |->
          IF k \in flagged THEN <<"[","c","s","]"," ">> \o words[k] ELSE words[k]])

\* C20 as stated: a token is marked exactly when its comparison key is
\* non-empty, is no stop word, and either the whole key is a listed function
\* word, or the key ends with ing/ed/tion/ment, or it contains x or q; every
\* other token is emitted unchanged, so that's is not marked.
C20_WholeKeyRule ==
  text_pc = "annotated"
    => LET words == Split(transcription)
       IN  /\ processed = MarkFlagged(words,
                 {k \in DOMAIN words :
                    ForeignByWholeKey(WordClean(words[k]), swahili_common, english_pattern)})
           /\ detect_code_switching_3(transcription, FALSE) = MarkFlagged(words,
                 {k \in DOMAIN words :
                    ForeignByWholeKey(WordClean(words[k]), swahili_common_3, english_indicators)})

\* C20 amended: a token is marked exactly when its comparison key is
\* non-empty, is no stop word, and either the key or one of the parts into
\* which apostrophes divide it is a listed function word, or the key ends
\* with ing/ed/tion/ment, or it contains x or q; stop words win, every other
\* token is emitted unchanged, and that's is marked.
C20_PartOfKeyRule ==
  text_pc = "annotated"
    => LET words == Split(transcription)
       IN  /\ processed = MarkFlagged(words,
                 {k \in DOMAIN words :
                    ForeignByPart(WordClean(words[k]), swahili_common, english_pattern)})
           /\ detect_code_switching_3(transcription, FALSE) = MarkFlagged(words,
                 {k \in DOMAIN words :
                    ForeignByPart(WordClean(words[k]), swahili_common_3, english_indicators)})

\* C20 witness: a text with that's (a listed word as a part of the key),
\* other (a listed word inside the key) and a stop word was annotated
C20_Witness ==
  /\ text_pc = "annotated"
  /\ Split(transcription) = << <<"t","h","a","t","'","s">>, <<"o","t","h","e","r">>, <<"n","a">> >>
  /\ processed = <<"[","c","s","]"," ","t","h","a","t","'","s"," ","o","t","h","e","r"," ","n","a">>

\* ------------------------------------------------------------------------
\* The strict mode of detect_code_switching (transcribe_3.py)
\* ------------------------------------------------------------------------

\* the tokens of a text that are not classified as foreign, in their order
SwahiliTokens(text) ==
  SelectSeq(Split(text),
            LAMBDA w : ~ForeignByPart(WordClean(w), swahili_common_3, english_indicators))

\* C21: detect_code_switching with strict_swahili=True returns the tokens of
\* its input with exactly the foreign-classified tokens removed: the tokens of
\* the output are the non-foreign tokens of the input in their order, joined
\* by single spaces, no marker is inserted, and the output is the empty text
\* when every token is foreign.
C21_StrictDropsForeign ==
  text_pc = "annotated"
    => /\ processed_strict = Join(SwahiliTokens(transcription_3))
       /\ Split(processed_strict) = SwahiliTokens(transcription_3)
       /\ SwahiliTokens(transcription_3) = <<>> => processed_strict = <<>>

\* C21 witness: of "The na that's" the strict mode returned "na"
C21_Witness ==
  /\ text_pc = "annotated"
  /\ transcription_3 = <<"T","h","e"," ","n","a"," ","t","h","a","t","'","s">>
  /\ processed_strict = <<"n","a">>

\* ------------------------------------------------------------------------
\* One transcribe_audio call chain on its own
\* ------------------------------------------------------------------------

\* rate limit errors the service answers with during one call chain at most
MaxChainErrors ==
  12

\* the switches made before the call chain begins: none in the first unit of
\* a run, three where a first unit ended on the fourth model
ChainStarts ==
  {0, 3}

\* the rotation state after the earlier units of the run made s switches
RotatedBy(s) ==
  /\ model_names = ModelNames
  /\ current_model_index = s
  /\ current_model_name = ModelNames[s + 1]
  /\ gemini_model = ModelNames[s + 1]
  /\ model_retry_count = [n \in {ModelNames[k + 1] : k \in 1..s} |-> 1]
  /\ switch_calls = s

\* process_audio has downloaded the audio of its unit and calls
\* transcribe_audio(audio_file): the first unit of a run, or a second unit
\* after a first one that switched s times and was submitted
InitChain ==
  /\ pc = "ta_upload"
  /\ \E s \in ChainStarts :
        /\ RotatedBy(s)
        /\ audio_count = (IF s = 0 THEN 1 ELSE 2)
        /\ chain_start_index = s
        /\ quota_budget = s + MaxChainErrors
  /\ audio_file = audio_count
  /\ temp_files = {audio_file}
  /\ interrupt = "none"
  /\ retry_count = 0
  /\ err = NoError
  /\ file_state = NoState
  /\ uploaded_files = 0
  /\ response_text = None
  /\ transcription = None
  /\ processed = None
  /\ pending = "none"
  /\ success = NoResult
  /\ unlink_count = 0
  /\ chain_errors = 0
  /\ chain_switches = 0
  /\ after_reset = FALSE
  /\ last_outcome = "none"
  /\ review = "none"
  /\ poll_tick = 0
  /\ period_attempts = <<>>
  /\ period_switches = 0
  /\ delete_pending = 0
  /\ retry = None
  /\ text_pc = "off"
  /\ TextIdle
  /\ UploadIdle
  /\ WaitIdle

\* the call chain runs until transcribe_audio returns to process_audio
NextChain ==
  transcribe_audio

SpecChain ==
  InitChain /\ [][NextChain]_vars

\* the interpreter goes on executing the call: a step that can be taken is
\* taken sooner or later
SpecChainFair ==
  InitChain /\ [][NextChain]_vars /\ WF_vars(NextChain)

\* C22: the polling of the uploaded file's processing state is bounded: also
\* when the service keeps answering PROCESSING, the polling loop ends and
\* transcribe_audio returns.
C22_PollingEnds ==
  [](pc = "ta_poll" => <>(pc # "ta_poll"))

\* ------------------------------------------------------------------------
\* transcribe_audio of gemini_transcribe.py (one model, no rotation)
\* ------------------------------------------------------------------------

\* the exception is an exceptions.ResourceExhausted: google.api_core renders
\* it as its status code 429 followed by the message
ResourceExhausted(m) ==
  StartsWithAt(m, <<"4","2","9"," ">>, 1)

\* the attributes and locals of gemini_transcribe.py whose counterparts the
\* rotation and the retry chain of gemini_multi_transcribe.py use
NoRotation ==
  /\ model_names = ModelNames
  /\ current_model_index = 0
  /\ current_model_name = ModelNames[1]
  /\ gemini_model = ModelNames[1]
  /\ model_retry_count = [n \in {} |-> 0]
  /\ switch_calls = 0
  /\ retry_count = 0
  /\ chain_errors = 0
  /\ chain_switches = 0
  /\ chain_start_index = 0
  /\ after_reset = FALSE
  /\ last_outcome = "none"
  /\ period_attempts = <<>>
  /\ period_switches = 0
  /\ delete_pending = 0

\* process_audio of gemini_transcribe.py has downloaded the audio of one of
\* its units and calls transcribe_audio(audio_file)
InitSingle ==
  /\ pc = "single_upload"
  /\ NoRotation
  /\ audio_count \in 1..MaxUnits
  /\ audio_file = audio_count
  /\ temp_files = {audio_file}
  /\ interrupt = "none"
  /\ err = NoError
  /\ file_state = NoState
  /\ uploaded_files = 0
  /\ transcription = None
  /\ processed = None
  /\ pending = "none"
  /\ success = NoResult
  /\ unlink_count = 0
  /\ review = "none"
  /\ poll_tick = 0
  /\ retry = None
  /\ response_text = None
  /\ quota_budget = MaxQuotaErrors
  /\ text_pc = "off"
  /\ TextIdle
  /\ UploadIdle
  /\ WaitIdle

\* what transcribe_audio of gemini_transcribe.py leaves alone
single_frame ==
  <<rotation_vars, audio_count, retry_count, temp_files, audio_file, transcription,
    processed, pending, success, unlink_count, chain_errors, chain_switches,
    chain_start_index, after_reset, last_outcome, review, interrupt, period_attempts,
    period_switches, delete_pending, text_pc, again, transcription_3,
    processed_strict, wait_vars, quota_budget, retry>>

\* `except Exception as e` of gemini_transcribe.py (lines 258-261): print,
\* return None
single_fails(m) ==
  /\ err' = m
  /\ single' = None
  /\ pc' = "single_done"

\* one round of `for attempt in range(3)`: genai.upload_file; a
\* ResourceExhausted is caught, raised again in the third round, and
\* otherwise followed by time.sleep(5) and the next round
upload_file_single ==
  /\ pc = "single_upload"
  /\ upload_calls' = upload_calls + 1
  /\ \/ /\ \E state \in {"PROCESSING", "ACTIVE", "FAILED"} : file_state' = state
        /\ uploaded_files' = uploaded_files + 1
        /\ pc' = "single_poll"
        /\ UNCHANGED <<attempt, err, single>>
     \/ \E m \in ErrorMessages :
           IF ResourceExhausted(m) /\ attempt # 2
           THEN /\ attempt' = attempt + 1
                /\ err' = m
                /\ UNCHANGED <<pc, file_state, uploaded_files, single>>
           ELSE /\ single_fails(m)
                /\ UNCHANGED <<attempt, file_state, uploaded_files>>
  /\ UNCHANGED <<single_frame, poll_tick, response_text>>

\* one round of `while audio_file_obj.state.name == "PROCESSING"`
get_file_single ==
  /\ pc = "single_poll"
  /\ file_state = "PROCESSING"
  /\ \/ /\ \E state \in {"PROCESSING", "ACTIVE", "FAILED"} : file_state' = state
        /\ poll_tick' = IF file_state' = "PROCESSING" THEN 1 - poll_tick ELSE 0
        /\ UNCHANGED <<pc, err, single>>
     \/ /\ \E m \in ErrorMessages : single_fails(m)
        /\ poll_tick' = 0
        /\ UNCHANGED file_state
  /\ UNCHANGED <<single_frame, attempt, upload_calls, uploaded_files, response_text>>

\* `if audio_file_obj.state.name == "FAILED": return None`
check_processed_single ==
  /\ pc = "single_poll"
  /\ file_state # "PROCESSING"
  /\ IF file_state = "FAILED"
     THEN /\ single' = None
          /\ pc' = "single_done"
     ELSE /\ pc' = "single_generate"
          /\ UNCHANGED single
  /\ UNCHANGED <<single_frame, attempt, upload_calls, uploaded_files, response_text,
                 err, file_state, poll_tick>>

\* self.gemini_model.generate_content(...) of gemini_transcribe.py
generate_content_single ==
  /\ pc = "single_generate"
  /\ \/ /\ \E text \in ResponseTexts : response_text' = text
        /\ pc' = "single_delete"
        /\ UNCHANGED <<err, single>>
     \/ /\ \E m \in ErrorMessages : single_fails(m)
        /\ UNCHANGED response_text
  /\ UNCHANGED <<single_frame, attempt, upload_calls, uploaded_files, file_state,
                 poll_tick>>

\* try: genai.delete_file(...) except: pass; then the normalization and
\* `return transcription`
delete_and_return_single ==
  /\ pc = "single_delete"
  /\ \E deleted \in BOOLEAN :
        uploaded_files' = IF deleted THEN uploaded_files - 1 ELSE uploaded_files
  /\ single' = Normalize_single(response_text)
  /\ pc' = "single_done"
  /\ UNCHANGED <<single_frame, attempt, upload_calls, response_text, err, file_state,
                 poll_tick>>

\* the steps of transcribe_audio of gemini_transcribe.py
NextSingle ==
  \/ upload_file_single
  \/ get_file_single
  \/ check_processed_single
  \/ generate_content_single
  \/ delete_and_return_single

SpecSingle ==
  InitSingle /\ [][NextSingle]_vars

\* C23: a provider does not retry internally: within one invocation of
\* transcribe_audio of gemini_transcribe.py the upload is attempted at most
\* once, also when it raises a resource-exhausted error.
C23_UploadAttemptedOnce ==
  upload_calls <= 1

\* ------------------------------------------------------------------------
\* The result of transcribe_audio in process_audio
\* ------------------------------------------------------------------------

\* C24: when transcribe_audio returned a text, the empty text included,
\* process_audio goes on to the annotation; the unit is ended at the
\* transcription step only when transcribe_audio returned None.
C24_EmptyTextProceeds ==
  [][pc = "pa_check" =>
       /\ transcription # None => pc' = "pa_detect"
       /\ transcription = None => pc' = "pa_finally" /\ pending' = "return False"]_vars

\* ------------------------------------------------------------------------
\* wait_for_submit, round by round (transcribe_3.py, gemini_multi_transcribe.py)
\* ------------------------------------------------------------------------

\* rounds of the wait loop that fit into its 600 s
MaxPolls ==
  3

\* what the page can show: the value of the textarea ("absent": no textarea
\* is found), the text of the element containing 'Id:' ("absent": none is
\* found), the URL
Pages ==
  [textarea : {"text", "", "absent"},
   id_label : {"Id: 1", "Id: 2", "absent"},
   url      : {"https://site/task/1", "https://site/task/2"}]

\* the page after insert_transcription: the first audio, its transcription
\* in the textarea, with or without an audio id label
StartPages ==
  {p \in Pages : p.textarea = "text" /\ p.id_label # "Id: 2" /\ p.url = "https://site/task/1"}

\* process_audio has inserted the text and calls wait_for_submit
InitWait ==
  /\ pc = "ws_start"
  /\ Constructed
  /\ UnitIdle
  /\ response_text = None
  /\ quota_budget = MaxQuotaErrors
  /\ text_pc = "off"
  /\ TextIdle
  /\ UploadIdle
  /\ program \in {"transcribe_3", "gemini_multi_transcribe"}
  /\ page \in StartPages
  /\ page_at_start = page
  /\ current_id = NoPage.url
  /\ wait_polls = 0
  /\ wait_result = NoResult

\* what wait_for_submit leaves alone
wait_frame ==
  <<rotation_vars, call_vars, audio_count, temp_files, audio_file, transcription,
    processed, pending, success, unlink_count, review, interrupt, attempt_vars,
    text_vars, upload_vars, quota_budget, program, page_at_start, retry>>

\* the outer `except Exception`: print, return False
wait_error ==
  /\ wait_result' = "False"
  /\ pc' = "ws_done"

\* current_id: in transcribe_3.py the text of the element containing 'Id:'
\* and, when the lookup raises, driver.current_url; in
\* gemini_multi_transcribe.py driver.current_url
wait_start ==
  /\ pc = "ws_start"
  /\ \/ /\ current_id' = IF program = "transcribe_3" /\ page.id_label # "absent"
                          THEN page.id_label
                          ELSE page.url
        /\ pc' = "ws_loop"
        /\ UNCHANGED wait_result
     \/ /\ program = "gemini_multi_transcribe" \/ page.id_label = "absent"
        /\ wait_error
        /\ UNCHANGED current_id
  /\ UNCHANGED <<wait_frame, page, wait_polls>>

\* `while time.time() - start_time < timeout`: the time is up ("Timeout",
\* return False), or time.sleep(2), during which the page may change
wait_round ==
  /\ pc = "ws_loop"
  /\ \/ /\ wait_polls >= 1
        /\ wait_result' = "False"
        /\ pc' = "ws_done"
        /\ UNCHANGED <<page, wait_polls>>
     \/ /\ wait_polls < MaxPolls
        /\ wait_polls' = wait_polls + 1
        /\ page' \in Pages
        /\ pc' = "ws_poll"
        /\ UNCHANGED wait_result
  /\ UNCHANGED <<wait_frame, current_id>>

\* the checks of one round: the textarea is empty; (transcribe_3.py) the id
\* text differs from current_id; driver.current_url differs from current_id.
\* A lookup that raises is passed over by its bare except; current_url
\* raising reaches the outer handler
wait_checks ==
  /\ pc = "ws_poll"
  /\ \/ /\ IF \/ page.textarea = ""
              \/ /\ program = "transcribe_3"
                 /\ page.id_label # "absent"
                 /\ page.id_label # current_id
              \/ page.url # current_id
           THEN wait_result' = "True" /\ pc' = "ws_done"
           ELSE pc' = "ws_loop" /\ UNCHANGED wait_result
     \/ wait_error
  /\ UNCHANGED <<wait_frame, page, current_id, wait_polls>>

NextWait ==
  \/ wait_start
  \/ wait_round
  \/ wait_checks

SpecWait ==
  InitWait /\ [][NextWait]_vars

\* a submitted condition shows on the page: the textarea is empty, the audio
\* id text differs from the one shown on entry, or the URL differs from the
\* URL on entry
SubmittedCondition ==
  \/ page.textarea = ""
  \/ page.id_label # "absent" /\ page.id_label # page_at_start.id_label
  \/ page.url # page_at_start.url

\* C25: wait_for_submit returns True only if at the round it returned in a
\* submitted condition was observed; with none during the whole wait it
\* returns False, also when the page shows an audio id label.
C25_TrueOnlyOnSubmission ==
  wait_result = "True" => SubmittedCondition

\* ------------------------------------------------------------------------
\* The rotation state across attempts and units
\* ------------------------------------------------------------------------

\* C26: current_model_index and model_retry_count are changed only by the
\* handling of a rate limit error in transcribe_audio: a successful attempt,
\* another error and the steps between two units leave both unchanged, so a
\* unit starts with the index and the counts the previous unit ended with;
\* the retry_count of the call process_audio makes is 0 in every unit.
C26_RotationOnlyOnQuota ==
  [][/\ <<current_model_index, model_retry_count>>' # <<current_model_index, model_retry_count>>
          => pc = "ta_except" /\ IsRateLimit(err)
     /\ pc \notin CallPositions /\ pc' \in CallPositions
          => pc' = "ta_upload" /\ retry_count' = 0]_vars

\* C26 witness: the second unit of a run calls transcribe_audio with
\* retry_count 0 while the third model is the current one, after a first
\* unit that switched twice
C26_Witness ==
  /\ audio_count = 2
  /\ pc = "ta_upload"
  /\ period_attempts = <<>>
  /\ retry_count = 0
  /\ current_model_index = 2
  /\ model_retry_count = (ModelNames[2] :> 1) @@ (ModelNames[3] :> 1)

\* ------------------------------------------------------------------------
\* Switches and attempts between two cooldowns
\* ------------------------------------------------------------------------

\* how often the model of index i was attempted since the last cooldown
AttemptsOn(i) ==
  Cardinality({k \in DOMAIN period_attempts : period_attempts[k] = i})

\* the step is the switch-and-retry of the handler (lines 331-336)
SwitchAndRetry ==
  /\ period_switches' = period_switches + 1
  /\ current_model_index' = (current_model_index + 1) % Len(model_names)
  /\ pc' = "ta_upload"
  /\ ~after_reset'

\* the step is the long cooldown with the reset (lines 337-344)
CooldownReset ==
  /\ after_reset'
  /\ period_switches' = 0
  /\ period_attempts' = <<>>
  /\ pc' = "ta_upload"

\* what C27 says of a rate limit error, the model of index twice being the
\* one attempted twice between the last cooldown and this one
QuotaRule(twice) ==
  pc = "ta_except" /\ IsRateLimit(err)
    => IF period_switches < Len(model_names)
       THEN SwitchAndRetry
       ELSE /\ CooldownReset
            /\ period_switches = Len(model_names)
            /\ Len(period_attempts) = Len(model_names) + 1
            /\ AttemptsOn(twice) = 2

\* C27 as stated: a rate limit error leads to a switch-and-retry exactly
\* when fewer than N switches were made since the last long cooldown (or the
\* start of the call), and to the long cooldown otherwise; between two
\* cooldowns there are N switches and N+1 attempts, and the model the chain
\* started on is attempted twice.
C27_ChainStartTwice ==
  [][QuotaRule(chain_start_index)]_vars

\* C27 amended: the same, the model attempted twice being the one attempted
\* first since the last cooldown: the model the chain started on before the
\* first cooldown, the model the reset leaves current after a cooldown.
C27_PeriodStartTwice ==
  [][QuotaRule(period_attempts[1])]_vars

\* C27 witness: the twelfth rate limit error of a chain of five models: the
\* second cooldown is due, five switches and six attempts after the first
C27_Witness ==
  /\ pc = "ta_except"
  /\ IsRateLimit(err)
  /\ chain_errors = 2 * (Len(model_names) + 1)
  /\ period_switches = Len(model_names)
  /\ Len(period_attempts) = Len(model_names) + 1

\* ------------------------------------------------------------------------
\* The retry prompt of run
\* ------------------------------------------------------------------------

\* C28: after a failed unit the loop of run starts no further unit until the
\* operator has answered the prompt: the prompt follows the failed unit, it
\* is left only by an answer, on the answer y (in either case) for another
\* round of the loop and on any other answer for the session summary, and
\* after that no unit starts.
C28_PromptDecides ==
  [][/\ pc = "run_result" /\ success = "False"
          => pc' = "run_prompt" /\ audio_count' = audio_count
     /\ pc = "run_prompt"
          => /\ audio_count' = audio_count
             /\ retry' \in {Lower(typed) : typed \in Answers}
             /\ pc' = IF retry' = <<"y">> THEN "run_loop" ELSE "run_summary"
     /\ pc \in {"run_summary", "run_closed"}
          => audio_count' = audio_count]_vars

\* ------------------------------------------------------------------------
\* Termination of transcribe_audio
\* ------------------------------------------------------------------------

\* transcribe_audio has returned the normalized text of a successful attempt,
\* or None after an error that is no rate limit error
Returned ==
  /\ pc = "pa_check"
  /\ \/ last_outcome = "ok" /\ transcription = Normalize(response_text)
     \/ last_outcome = "other" /\ transcription = None

\* C29: transcribe_audio terminates when the quota exhaustion is not
\* permanent: if the service answers with a rate limit error only finitely
\* often and the processing of every uploaded file finishes (the polling
\* does not go on forever and no file ends FAILED), the call eventually
\* returns the normalized text of a successful attempt, or None after an
\* error that is no rate limit error.
C29_CallReturns ==
  (([]<>(pc # "ta_poll")) /\ [](file_state # "FAILED")) => <>Returned

\* C29 witness: the call returned a text after two cooldowns, that is after
\* twelve rate limit errors
C29_Witness ==
  /\ Returned
  /\ last_outcome = "ok"
  /\ chain_errors = 2 * (Len(model_names) + 1)

\* ------------------------------------------------------------------------
\* The files uploaded to the service
\* ------------------------------------------------------------------------

====
